---- MODULE Spec2Model ----
(***************************************************************************)
(* A model of the CHIP-8 interpreter of src/main.cpp (machine state,       *)
(* instruction decoder/executor, timing scheduler) and of the hand-offs it *)
(* shares with the presentation surface of src/display.cpp.                *)
(***************************************************************************)
EXTENDS Integers, Sequences, FiniteSets, TLC

VARIABLES
    cpu,                \* cpu_t cpu: the machine state
    cpu_running,        \* static bool cpu_running
    clk,                \* size_t clk of main
    something_pressed,  \* bool something_pressed of main
    key_pressed_,       \* display::key_pressed_
    display_buffer_,    \* display::display_buffer_
    redraw_,            \* display::redraw_
    log,                \* history: the instructions executed so far, each with
                        \* the registers and lit pixels it started from
    rom,                \* the ROM file named on the command line: its size and
                        \* the program it starts with
    main_at,            \* where main is
    loop_at,            \* where the thread running display::loop is
    running_,           \* display::running_
    x11_display_,       \* display::x11_display_: "open", or "null"
    x11_window_,        \* display::x11_window_: the squares painted since the
                        \* last XClearWindow, and how far draw_pixels has read
    snapshots           \* history: the buffers passed to request_redraw

vars == <<cpu, cpu_running, clk, something_pressed, key_pressed_,
          display_buffer_, redraw_, log, rom, main_at, loop_at, running_,
          x11_display_, x11_window_, snapshots>>

\* what the scheduler loop leaves alone
life == <<rom, loop_at, running_, x11_display_, x11_window_>>

(***************************************************************************)
(* Program constants.                                                      *)
(***************************************************************************)
clock_freq == 700
mem_size == 4096
start_addr == 512
gp_registers == 16
display_w == 64
display_h == 32
n_pixels == display_w * display_h
font_sprite_size == 5
n_keys == 16
clocks60 == clock_freq \div 60
Word16 == 65536
Byte8 == 256

(***************************************************************************)
(* Bounds of the model.                                                    *)
(***************************************************************************)
MaxClk == 22        \* ticks of the scheduler loop that are explored
MaxNest == 3        \* deepest nesting of the call/return program
NKeys == 2          \* keys 0..NKeys-1 are the ones the user touches
ArraysKept == 3     \* ticks whose starting arrays the history keeps
DrawBands == 2      \* draw_pixels reads display_buffer_ a band of rows at a time

(***************************************************************************)
(* Bytes and bits.                                                         *)
(***************************************************************************)
Pow2(k) == 2 ^ k

Bit(v, k) == (v \div Pow2(k)) % 2

\* a & b on bytes
BitAnd(a, b) ==
    Bit(a, 0) * Bit(b, 0) + 2 * Bit(a, 1) * Bit(b, 1)
    + 4 * Bit(a, 2) * Bit(b, 2) + 8 * Bit(a, 3) * Bit(b, 3)
    + 16 * Bit(a, 4) * Bit(b, 4) + 32 * Bit(a, 5) * Bit(b, 5)
    + 64 * Bit(a, 6) * Bit(b, 6) + 128 * Bit(a, 7) * Bit(b, 7)

\* a | b on bytes
BitOr(a, b) == a + b - BitAnd(a, b)

\* a ^ b on bytes
BitXor(a, b) == a + b - 2 * BitAnd(a, b)

\* conversion to uint8_t
U8(n) == n % Byte8

\* conversion to uint16_t
U16(n) == n % Word16

Min(S) == CHOOSE m \in S : \A n \in S : m <= n

Last(s) == s[Len(s)]

(***************************************************************************)
(* Byte arrays. The arrays of cpu_t (ram, display) and the display's       *)
(* display_buffer_ are zero-initialized; the model keeps the cells that    *)
(* hold a non-zero byte, and every other cell of the array reads 0.        *)
(***************************************************************************)
Zeroed == [a \in {} |-> 0]

Peek(arr, i) == IF i \in DOMAIN arr THEN arr[i] ELSE 0

Poke(arr, i, v) ==
    IF v = 0
    THEN [a \in (DOMAIN arr) \ {i} |-> arr[a]]
    ELSE [a \in (DOMAIN arr) \cup {i} |-> IF a = i THEN v ELSE arr[a]]

\* memcpy / fread of the bytes of a sequence to arr[base], arr[base + 1], ...
CopyIn(arr, base, bytes) ==
    LET dst == {base + i - 1 : i \in 1..Len(bytes)}
        set == {a \in dst : bytes[a - base + 1] # 0}
    IN  [a \in ((DOMAIN arr) \ dst) \cup set |->
            IF a \in dst THEN bytes[a - base + 1] ELSE arr[a]]

(***************************************************************************)
(* set_font_sprites                                                        *)
(***************************************************************************)
font_sprites ==
    << 240, 144, 144, 144, 240,   \* 0
        32,  96,  32,  32, 112,   \* 1
       240,  16, 240, 128, 240,   \* 2
       240,  16, 240,  16, 240,   \* 3
       144, 144, 240,  16,  16,   \* 4
       240, 128, 240,  16, 240,   \* 5
       240, 128, 240, 144, 240,   \* 6
       240,  16,  32,  64,  64,   \* 7
       240, 144, 240, 144, 240,   \* 8
       240, 144, 240,  16, 240,   \* 9
       240, 144, 240, 144, 144,   \* A
       224, 144, 224, 144, 224,   \* B
       240, 128, 128, 128, 240,   \* C
       224, 144, 144, 144, 224,   \* D
       240, 128, 240, 128, 240,   \* E
       240, 128, 240, 128, 128 >> \* F

set_font_sprites(c) == [c EXCEPT !.ram = CopyIn(c.ram, 0, font_sprites)]

\* cpu_t cpu{}: every member zero-initialized, last_key_pressed = -1
cpu_t ==
    [ ram              |-> Zeroed,
      register_vx      |-> [i \in 0..(gp_registers - 1) |-> 0],
      register_delay   |-> 0,
      register_sound   |-> 0,
      register_index   |-> 0,
      pc               |-> 0,
      stack            |-> << >>,
      display          |-> Zeroed,
      keys             |-> [k \in 0..(n_keys - 1) |-> FALSE],
      last_key_pressed |-> -1,
      redraw_required  |-> FALSE ]

(***************************************************************************)
(* Accesses to cpu.ram. The code checks no index: an access at or past     *)
(* mem_size is undefined. A read there yields an arbitrary byte g; a write *)
(* there is either lost or lands in the member that follows ram in cpu_t,  *)
(* register_vx, whichever the flag w chooses.                              *)
(***************************************************************************)
RamRead(c, addr, g) == IF addr < mem_size THEN Peek(c.ram, addr) ELSE g

RamWrite(c, addr, b, w) ==
    IF addr < mem_size
    THEN [c EXCEPT !.ram = Poke(c.ram, addr, b)]
    ELSE IF w /\ (addr - mem_size) < gp_registers
         THEN [c EXCEPT !.register_vx[addr - mem_size] = b]
         ELSE c

set_flag(c, set) == [c EXCEPT !.register_vx[15] = IF set THEN 1 ELSE 0]

(***************************************************************************)
(* DXYN: the loops over the sprite's bit columns and rows.                 *)
(***************************************************************************)
\* a column loop that stops only at the end of the sprite byte
ColInsideUnclipped(x, col) == col < 8

ColInside(x, col) == (col < 8) /\ ((x + col) < display_w)

RowInside(y, row, imm_n) == (row < imm_n) /\ ((row + y) < display_h)

PixelIndex(row, col, display_offset) == row * display_w + col + display_offset

\* the rows and the columns the two loops visit before their conditions
\* first fail
RowsDrawn(y, imm_n) == {row \in 0..15 : \A k \in 0..row : RowInside(y, k, imm_n)}

ColsDrawn(x) == {col \in 0..7 : \A k \in 0..col : ColInside(x, k)}

\* a draw that reports a collision but leaves the lit pixel lit
DrawOver(c, reg_x, reg_y, imm_n, g) ==
    LET x == c.register_vx[reg_x] % display_w
        y == c.register_vx[reg_y] % display_h
        display_offset == x + y * display_w
        sprite_data(row) == RamRead(c, c.register_index + row, g)
        hits == {h \in RowsDrawn(y, imm_n) \X ColsDrawn(x) :
                    Bit(sprite_data(h[1]), 7 - h[2]) = 1}
        on == {PixelIndex(h[1], h[2], display_offset) : h \in hits}
        collided == {p \in on : Peek(c.display, p) # 0}
    IN  [c EXCEPT !.register_vx[15] = IF collided # {} THEN 1 ELSE 0,
                  !.display = [p \in (DOMAIN c.display) \cup on |-> 1],
                  !.redraw_required = TRUE]

\* The loops visit each (row, col) once and no two of them share a pixel, so
\* the pixels are flipped together: a set sprite bit clears a lit pixel and
\* raises VF, and lights an unlit one.
Draw(c, reg_x, reg_y, imm_n, g) ==
    LET x == c.register_vx[reg_x] % display_w
        y == c.register_vx[reg_y] % display_h
        display_offset == x + y * display_w
        sprite_data(row) == RamRead(c, c.register_index + row, g)
        hits == {h \in RowsDrawn(y, imm_n) \X ColsDrawn(x) :
                    Bit(sprite_data(h[1]), 7 - h[2]) = 1}
        on == {PixelIndex(h[1], h[2], display_offset) : h \in hits}
        cleared == {p \in on : Peek(c.display, p) # 0}
        lit == on \ cleared
    IN  [c EXCEPT !.register_vx[15] = IF cleared # {} THEN 1 ELSE 0,
                  !.display = [p \in ((DOMAIN c.display) \ cleared) \cup lit |->
                                  IF p \in DOMAIN c.display
                                  THEN c.display[p] ELSE 1],
                  !.redraw_required = TRUE]

(***************************************************************************)
(* FX33, FX55, FX65                                                        *)
(***************************************************************************)
\* a conversion that takes the tens from the whole value
StoreBcdTens(c, reg_x, w) ==
    LET x_val == c.register_vx[reg_x]
        hundreds == x_val \div 100
        d == x_val \div 10
        u == x_val % 10
        c1 == RamWrite(c, c.register_index, hundreds, w)
        c2 == RamWrite(c1, c1.register_index + 1, d, w)
    IN  RamWrite(c2, c2.register_index + 2, u, w)

StoreBcd(c, reg_x, w) ==
    LET x_val == c.register_vx[reg_x]
        hundreds == x_val \div 100
        mod100 == x_val % 100
        d == mod100 \div 10
        u == mod100 % 10
        c1 == RamWrite(c, c.register_index, hundreds, w)
        c2 == RamWrite(c1, c1.register_index + 1, d, w)
    IN  RamWrite(c2, c2.register_index + 2, u, w)

\* The loop of FX55, i = 0..reg_x: ram[register_index + i] = register_vx[i].
\* The stores inside ram come first and read registers no store has touched.
\* A store past the end that lands in register_vx (w) hits register
\* j = i + d, d = register_index - mem_size: for d <= 0 it copies a register
\* the loop has already passed, for d > 0 the copies cascade upwards, so
\* register j ends as the old register j % d.
StoreLoop(c, reg_x, w) ==
    LET index == c.register_index
        d == index - mem_size
        inside == {i \in 0..reg_x : index + i < mem_size}
        dst == {index + i : i \in inside}
        set == {a \in dst : c.register_vx[a - index] # 0}
        source(j) == IF d > 0 THEN j % d ELSE j - d
    IN  [c EXCEPT !.ram = [a \in ((DOMAIN c.ram) \ dst) \cup set |->
                              IF a \in dst THEN c.register_vx[a - index]
                                           ELSE c.ram[a]],
                  !.register_vx =
                      [j \in 0..(gp_registers - 1) |->
                          IF w /\ (j - d) \in 0..reg_x /\ (j - d) \notin inside
                          THEN c.register_vx[source(j)]
                          ELSE c.register_vx[j]]]

StoreRegisters(c, reg_x, w) ==
    LET c1 == StoreLoop(c, reg_x, w)
    IN  [c1 EXCEPT !.register_index = U16(c1.register_index + (reg_x + 1))]

\* the loop of FX65: ram is only read, each register is written once
LoadLoop(c, reg_x, g) ==
    [c EXCEPT !.register_vx =
        [i \in 0..(gp_registers - 1) |->
            IF i <= reg_x THEN RamRead(c, c.register_index + i, g)
                          ELSE c.register_vx[i]]]

LoadRegisters(c, reg_x, g) ==
    LET c1 == LoadLoop(c, reg_x, g)
    IN  [c1 EXCEPT !.register_index = U16(c1.register_index + (reg_x + 1))]

(***************************************************************************)
(* The register-register family 8XYN.                                      *)
(***************************************************************************)
AddXY(c, reg_x, reg_y) ==
    LET x_val == c.register_vx[reg_x]
        y_val == c.register_vx[reg_y]
        c1 == set_flag(c, x_val + y_val > 255)
    IN  [c1 EXCEPT !.register_vx[reg_x] = U8(c1.register_vx[reg_x] + y_val)]

SubXY(c, reg_x, reg_y) ==
    LET x_val == c.register_vx[reg_x]
        y_val == c.register_vx[reg_y]
        c1 == set_flag(c, x_val < y_val)
    IN  [c1 EXCEPT !.register_vx[reg_x] = U8(c1.register_vx[reg_x] - y_val)]

ShrXY(c, reg_x, reg_y) ==
    LET y_val == c.register_vx[reg_y]
        c1 == set_flag(c, Bit(y_val, 0) = 1)
    IN  [c1 EXCEPT !.register_vx[reg_x] = U8(y_val \div 2)]

SubnXY(c, reg_x, reg_y) ==
    LET x_val == c.register_vx[reg_x]
        y_val == c.register_vx[reg_y]
        c1 == set_flag(c, y_val < x_val)
    IN  [c1 EXCEPT !.register_vx[reg_x] = U8(y_val - x_val)]

ShlXY(c, reg_x, reg_y) ==
    LET y_val == c.register_vx[reg_y]
        c1 == set_flag(c, Bit(y_val, 0) = 1)
    IN  [c1 EXCEPT !.register_vx[reg_x] = U8(y_val * 2)]

Family8(c, reg_x, reg_y, imm_n) ==
    LET vx == c.register_vx[reg_x]
        vy == c.register_vx[reg_y]
    IN  CASE imm_n = 0 -> [c EXCEPT !.register_vx[reg_x] = vy]
          [] imm_n = 1 -> [c EXCEPT !.register_vx[reg_x] = BitOr(vx, vy)]
          [] imm_n = 2 -> [c EXCEPT !.register_vx[reg_x] = BitAnd(vx, vy)]
          [] imm_n = 3 -> [c EXCEPT !.register_vx[reg_x] = BitXor(vx, vy)]
          [] imm_n = 4 -> AddXY(c, reg_x, reg_y)
          [] imm_n = 5 -> SubXY(c, reg_x, reg_y)
          [] imm_n = 6 -> ShrXY(c, reg_x, reg_y)
          [] imm_n = 7 -> SubnXY(c, reg_x, reg_y)
          [] imm_n = 14 -> ShlXY(c, reg_x, reg_y)
          [] OTHER -> c

(***************************************************************************)
(* Families 0, E and F.                                                    *)
(***************************************************************************)
\* a clear that does not ask for a redraw
ClearDisplayQuiet(c) == [c EXCEPT !.display = Zeroed]

ClearDisplay(c) ==
    [c EXCEPT !.display = Zeroed, !.redraw_required = TRUE]

\* a return that steps back onto itself when the stack is empty
ReturnOrStay(c) ==
    IF c.stack # << >>
    THEN [c EXCEPT !.pc = Last(c.stack),
                   !.stack = SubSeq(c.stack, 1, Len(c.stack) - 1)]
    ELSE [c EXCEPT !.pc = U16(c.pc - 2)]

\* a return that takes the oldest return address
ReturnOldest(c) ==
    IF c.stack # << >>
    THEN [c EXCEPT !.pc = Head(c.stack), !.stack = Tail(c.stack)]
    ELSE c

Return(c) ==
    IF c.stack # << >>
    THEN [c EXCEPT !.pc = Last(c.stack),
                   !.stack = SubSeq(c.stack, 1, Len(c.stack) - 1)]
    ELSE c

Family0(c, imm_nn) ==
    LET c1 == IF imm_nn = 224 THEN ClearDisplay(c) ELSE c
    IN  IF imm_nn = 238 THEN Return(c1) ELSE c1

Call(c, imm_nnn) ==
    [c EXCEPT !.stack = Append(c.stack, c.pc), !.pc = imm_nnn]

SkipIf(c, cond) == IF cond THEN [c EXCEPT !.pc = U16(c.pc + 2)] ELSE c

FamilyE(c, reg_x, imm_nn) ==
    LET x_val == c.register_vx[reg_x]
    IN  CASE imm_nn = 158 -> SkipIf(c, x_val < 16 /\ c.keys[x_val])
          [] imm_nn = 161 -> SkipIf(c, x_val < 16 /\ ~c.keys[x_val])
          [] OTHER -> c

\* a key wait that does not step the program counter back
WaitKeyNoRewind(c, reg_x) ==
    IF c.last_key_pressed < 0
    THEN c
    ELSE [c EXCEPT !.register_vx[reg_x] = U8(c.last_key_pressed)]

WaitKey(c, reg_x) ==
    IF c.last_key_pressed < 0
    THEN [c EXCEPT !.pc = U16(c.pc - 2)]
    ELSE [c EXCEPT !.register_vx[reg_x] = U8(c.last_key_pressed)]

FamilyF(c, reg_x, imm_nn, g, w) ==
    LET vx == c.register_vx[reg_x]
    IN  CASE imm_nn = 7 -> [c EXCEPT !.register_vx[reg_x] = c.register_delay]
          [] imm_nn = 10 -> WaitKey(c, reg_x)
          [] imm_nn = 21 -> [c EXCEPT !.register_delay = vx]
          [] imm_nn = 24 -> [c EXCEPT !.register_sound = vx]
          [] imm_nn = 30 -> [c EXCEPT !.register_index = U16(c.register_index + vx)]
          [] imm_nn = 41 -> [c EXCEPT !.register_index = vx * font_sprite_size]
          [] imm_nn = 51 -> StoreBcd(c, reg_x, w)
          [] imm_nn = 85 -> StoreRegisters(c, reg_x, w)
          [] imm_nn = 101 -> LoadRegisters(c, reg_x, g)
          [] OTHER -> c

(***************************************************************************)
(* execute(cpu, instruction). r is the byte std::rand() % 256 yields, g    *)
(* and w the outcome of an access past the end of ram.                     *)
(***************************************************************************)
ms_nibble_of(instruction) == (instruction \div 4096) % 16
reg_x_of(instruction) == (instruction \div 256) % 16
reg_y_of(instruction) == (instruction \div 16) % 16
imm_n_of(instruction) == instruction % 16
imm_nn_of(instruction) == instruction % 256
imm_nnn_of(instruction) == instruction % 4096

execute(c, instruction, r, g, w) ==
    LET ms_nibble == ms_nibble_of(instruction)
        reg_x == reg_x_of(instruction)
        reg_y == reg_y_of(instruction)
        imm_n == imm_n_of(instruction)
        imm_nn == imm_nn_of(instruction)
        imm_nnn == imm_nnn_of(instruction)
        vx == c.register_vx[reg_x]
        vy == c.register_vx[reg_y]
    IN  CASE ms_nibble = 0 -> Family0(c, imm_nn)
          [] ms_nibble = 1 -> [c EXCEPT !.pc = imm_nnn]
          [] ms_nibble = 2 -> Call(c, imm_nnn)
          [] ms_nibble = 3 -> SkipIf(c, vx = imm_nn)
          [] ms_nibble = 4 -> SkipIf(c, vx # imm_nn)
          [] ms_nibble = 5 -> SkipIf(c, vx = vy)
          [] ms_nibble = 6 -> [c EXCEPT !.register_vx[reg_x] = imm_nn]
          [] ms_nibble = 7 -> [c EXCEPT !.register_vx[reg_x] = U8(vx + imm_nn)]
          [] ms_nibble = 8 -> Family8(c, reg_x, reg_y, imm_n)
          [] ms_nibble = 9 -> SkipIf(c, vx # vy)
          [] ms_nibble = 10 -> [c EXCEPT !.register_index = imm_nnn]
          [] ms_nibble = 11 -> [c EXCEPT !.pc = U16(imm_nnn + c.register_vx[0])]
          [] ms_nibble = 12 -> [c EXCEPT !.register_vx[reg_x] = BitAnd(U8(r), imm_nn)]
          [] ms_nibble = 13 -> Draw(c, reg_x, reg_y, imm_n, g)
          [] ms_nibble = 14 -> FamilyE(c, reg_x, imm_nn)
          [] OTHER -> FamilyF(c, reg_x, imm_nn, g, w)

(***************************************************************************)
(* Program images. A program is a sequence of 16-bit instruction words,    *)
(* stored big-endian.                                                      *)
(***************************************************************************)
Op(n3, n2, n1, n0) == n3 * 4096 + n2 * 256 + n1 * 16 + n0

OpNN(n3, n2, nn) == n3 * 4096 + n2 * 256 + nn

OpAddr(n3, addr) == n3 * 4096 + addr

RomBytes(words) ==
    [i \in 1..(2 * Len(words)) |->
        IF i % 2 = 1 THEN words[(i + 1) \div 2] \div 256
                     ELSE words[i \div 2] % 256]

\* F30A ; 6105 ; 1204
WaitRom == << Op(15, 3, 0, 10), OpNN(6, 1, 5), OpAddr(1, start_addr + 4) >>

\* 6003 ; F018 ; F015 ; 1204
TimerRom == << OpNN(6, 0, 3), Op(15, 0, 1, 8), Op(15, 0, 1, 5),
               OpAddr(1, start_addr + 4) >>

\* 6001 ; E09E ; 1202 ; D005 ; 1208
KeyDrawRom == << OpNN(6, 0, 1), Op(14, 0, 9, 14), OpAddr(1, start_addr + 2),
                 Op(13, 0, 0, 5), OpAddr(1, start_addr + 8) >>

\* the sample program: clear, draw the glyph "A" at (0,0), jump to self
\* 00E0 ; A032 ; D015 ; 1206
GlyphRom == << Op(0, 0, 14, 0), OpAddr(10, 10 * font_sprite_size),
               Op(13, 0, 1, font_sprite_size), OpAddr(1, start_addr + 6) >>

\* Draws the glyph at (0,0), (0,16), (8,16), (8,0), (16,0), ...: two more each
\* six ticks, so the hand-offs of ticks 11 and 22 differ high and low.
TearRom ==
    << OpAddr(10, 50), Op(13, 0, 1, 5), OpNN(7, 1, 16), Op(13, 0, 1, 5),
       OpNN(7, 0, 8), OpAddr(1, start_addr + 2) >>

Roms == {WaitRom, TimerRom, KeyDrawRom, GlyphRom}

(***************************************************************************)
(* load_rom: the image is refused when its size, converted to uint16_t,    *)
(* exceeds mem_size - start_addr; otherwise it is read to ram[start_addr]. *)
(***************************************************************************)
RomRefused(rom_size) == U16(rom_size) > (mem_size - start_addr)

\* a ROM file of the given size: the program, cut or followed by zeros with
\* a non-zero byte at every 97th place and at the end
RomFile(size, words) == [size |-> size, words |-> words]

FileBytes(file) ==
    [i \in 1..file.size |->
        IF i <= 2 * Len(file.words) THEN RomBytes(file.words)[i]
        ELSE IF i % 97 = 0 \/ i = file.size THEN 1 + (i % 255)
        ELSE 0]

load_rom(c, image) == [c EXCEPT !.ram = CopyIn(c.ram, start_addr, image)]

(***************************************************************************)
(* main, up to the scheduler loop.                                         *)
(***************************************************************************)
Booted(words) ==
    [load_rom(set_font_sprites(cpu_t), RomBytes(words)) EXCEPT !.pc = start_addr]

\* a window with no square painted: as created, and after XClearWindow
Unpainted == [bands |-> 0, lit |-> {}]

NoKeys == [k \in 0..(n_keys - 1) |-> FALSE]

InitWith(words) ==
    /\ ~RomRefused(2 * Len(words))
    /\ cpu = Booted(words)
    /\ cpu_running = TRUE
    /\ clk = 0
    /\ something_pressed = FALSE
    /\ key_pressed_ = NoKeys
    /\ display_buffer_ = Zeroed
    /\ redraw_ = FALSE
    /\ log = << >>
    /\ rom = RomFile(2 * Len(words), words)
    /\ main_at = "loop"
    /\ loop_at = "loop"
    /\ running_ = TRUE
    /\ x11_display_ = "open"
    /\ x11_window_ = Unpainted
    /\ snapshots = {}

Init == \E words \in Roms : InitWith(words)

(***************************************************************************)
(* One iteration of the scheduler loop of main.                            *)
(***************************************************************************)
RandSamples == {0, 85, 255}

GarbageSamples == {0, 255}

\* every data access of an instruction is at register_index + k, k <= 15
NearEnd(c) == (c.pc + 1 >= mem_size) \/ (c.register_index + 15 >= mem_size)

Fetch(c, g) == RamRead(c, c.pc, g) * 256 + RamRead(c, c.pc + 1, g)

\* a decrement without the test for zero
CountDownWraps(t) == U8(t - 1)

CountDown(t) == IF t > 0 THEN t - 1 ELSE t

IsSync(n) == (n % clocks60) = 0

\* a 60 Hz block that leaves redraw_required set
Sync60Keeps(c, n) ==
    IF IsSync(n)
    THEN [c EXCEPT !.register_delay = CountDown(c.register_delay),
                   !.register_sound = CountDown(c.register_sound)]
    ELSE c

Sync60(c, n) ==
    IF IsSync(n)
    THEN [c EXCEPT !.redraw_required = FALSE,
                   !.register_delay = CountDown(c.register_delay),
                   !.register_sound = CountDown(c.register_sound)]
    ELSE c

NewlyPressed(tmp_keys, keys) == {i \in 0..(n_keys - 1) : tmp_keys[i] /\ ~keys[i]}

SampleKeys(c, tmp_keys, pressed) ==
    LET newly == NewlyPressed(tmp_keys, c.keys)
        c1 == IF newly # {} THEN [c EXCEPT !.last_key_pressed = Min(newly)] ELSE c
        c2 == IF ~pressed THEN [c1 EXCEPT !.last_key_pressed = -1] ELSE c1
    IN  [c2 EXCEPT !.keys = tmp_keys]

\* The history keeps the arrays and registers an instruction started from for
\* the last ArraysKept ticks; older entries keep the instruction, its address,
\* the program counter it left and the call stack.
Fade(h) ==
    [i \in 1..Len(h) |->
        IF i + ArraysKept > Len(h) + 1
        THEN h[i]
        ELSE [h[i] EXCEPT !.ram = Zeroed, !.display = Zeroed,
                          !.vx = cpu_t.register_vx]]

TickWith(r, g, w) ==
    LET next_instruction == Fetch(cpu, g)
        c1 == [cpu EXCEPT !.pc = U16(cpu.pc + 2)]
        c2 == execute(c1, next_instruction, r, g, w)
        n == clk + 1
        handoff == IsSync(n) /\ c2.redraw_required
        c3 == Sync60(c2, n)
        tmp_keys == key_pressed_
        pressed == something_pressed \/ (NewlyPressed(tmp_keys, c3.keys) # {})
    IN  /\ clk' = n
        /\ cpu' = SampleKeys(c3, tmp_keys, pressed)
        /\ display_buffer_' = IF handoff THEN c2.display ELSE display_buffer_
        /\ redraw_' = IF handoff THEN TRUE ELSE redraw_
        /\ snapshots' = IF handoff THEN snapshots \cup {c2.display} ELSE snapshots
        /\ something_pressed' = pressed
        /\ log' = Append(Fade(log), [addr |-> cpu.pc, instr |-> next_instruction,
                                     pc |-> c2.pc, vx |-> cpu.register_vx,
                                     index |-> cpu.register_index,
                                     delay |-> cpu.register_delay,
                                     sound |-> cpu.register_sound,
                                     stack |-> cpu.stack,
                                     ram |-> cpu.ram,
                                     display |-> cpu.display,
                                     redraw |-> cpu.redraw_required,
                                     handoff |-> handoff])
        /\ UNCHANGED <<cpu_running, key_pressed_, life>>

\* the body of the while loop of main
Iterate ==
    \E g \in (IF NearEnd(cpu) THEN GarbageSamples ELSE {0}) :
    \E w \in (IF NearEnd(cpu) THEN BOOLEAN ELSE {FALSE}) :
    \E r \in (IF ms_nibble_of(Fetch(cpu, g)) = 12 THEN RandSamples ELSE {0}) :
       TickWith(r, g, w)

\* One pass of the while loop of main, its test included, taken while no
\* other thread moves.
Tick ==
    /\ main_at = "loop"
    /\ cpu_running
    /\ clk < MaxClk
    /\ UNCHANGED main_at
    /\ Iterate

(***************************************************************************)
(* display::loop consuming a KeyPress or KeyRelease event of key k.        *)
(***************************************************************************)
KeyEvent(k, is_pressed) ==
    /\ key_pressed_' = [key_pressed_ EXCEPT ![k] = is_pressed]
    /\ UNCHANGED <<cpu, cpu_running, clk, something_pressed, display_buffer_,
                   snapshots,
                   redraw_, log, main_at, life>>

XKeyEvent == \E k \in 0..(NKeys - 1) : \E is_pressed \in BOOLEAN : KeyEvent(k, is_pressed)

(***************************************************************************)
(* on_interrupt                                                            *)
(***************************************************************************)
on_interrupt ==
    /\ cpu_running' = FALSE
    /\ UNCHANGED <<cpu, clk, something_pressed, key_pressed_, display_buffer_,
                   snapshots,
                   redraw_, log, main_at, life>>

Next == Tick \/ XKeyEvent \/ on_interrupt

Spec == Init /\ [][Next]_vars

(***************************************************************************)
(* main from its first statement to its return, with the thread that runs  *)
(* display::loop. main_at is "initialize", "spawn", "load", then "loop"    *)
(* (at the test of the while), "body", "terminate", "join", and at last    *)
(* "returned"; "exited" after exit(1), and "smashed" once fread has        *)
(* written past the end of cpu.ram, from where nothing is defined.         *)
(***************************************************************************)
\* files of every interesting size that start with a jump to itself
ImageSizes ==
    {0, 2, 7, mem_size - start_addr, mem_size - start_addr + 1, mem_size,
     Word16 - 1, Word16, Word16 + 2}

LifeImages ==
    {RomFile(size, << OpAddr(1, start_addr) >>) : size \in ImageSizes}
        \cup {RomFile(2 * Len(words), words) : words \in {WaitRom, GlyphRom}}

\* main before its first statement, started on one of the files
Started(files) ==
    /\ cpu = set_font_sprites(cpu_t)
    /\ cpu_running = TRUE
    /\ clk = 0
    /\ something_pressed = FALSE
    /\ key_pressed_ = NoKeys
    /\ display_buffer_ = Zeroed
    /\ redraw_ = FALSE
    /\ log = << >>
    /\ rom \in files
    /\ main_at = "initialize"
    /\ loop_at = "unstarted"
    /\ running_ = FALSE
    /\ x11_display_ = "null"
    /\ x11_window_ = Unpainted
    /\ snapshots = {}

InitLife == Started(LifeImages)

\* the_display.initialize(): XOpenDisplay succeeds or not; main does not
\* look at the value returned
initialize ==
    /\ main_at = "initialize"
    /\ \E opened \in BOOLEAN :
          /\ x11_display_' = IF opened THEN "open" ELSE "null"
          /\ running_' = opened
    /\ main_at' = "spawn"
    /\ UNCHANGED <<cpu, cpu_running, clk, something_pressed, key_pressed_,
                   display_buffer_, snapshots, redraw_, log, rom, loop_at,
                   x11_window_>>

\* std::thread display_thread
Spawn ==
    /\ main_at = "spawn"
    /\ main_at' = "load"
    /\ loop_at' = "loop"
    /\ UNCHANGED <<cpu, cpu_running, clk, something_pressed, key_pressed_,
                   display_buffer_, snapshots, redraw_, log, rom, running_,
                   x11_display_, x11_window_>>

\* load_rom(cpu, rom) and cpu.pc = start_addr
LoadRom ==
    /\ main_at = "load"
    /\ IF RomRefused(rom.size)
       THEN main_at' = "exited" /\ UNCHANGED cpu
       ELSE IF start_addr + rom.size > mem_size
       THEN main_at' = "smashed" /\ UNCHANGED cpu
       ELSE /\ main_at' = "loop"
            /\ cpu' = [load_rom(cpu, FileBytes(rom)) EXCEPT !.pc = start_addr]
    /\ UNCHANGED <<cpu_running, clk, something_pressed, key_pressed_,
                   display_buffer_, snapshots, redraw_, log, life>>

\* while (cpu_running)
LoopTest ==
    /\ main_at = "loop"
    /\ IF cpu_running
       THEN clk < MaxClk /\ main_at' = "body"
       ELSE main_at' = "terminate"
    /\ UNCHANGED <<cpu, cpu_running, clk, something_pressed, key_pressed_,
                   display_buffer_, snapshots, redraw_, log, life>>

Body ==
    /\ main_at = "body"
    /\ main_at' = "loop"
    /\ Iterate

\* a terminate that leaves running_ set
terminateIdle ==
    /\ main_at = "terminate"
    /\ main_at' = "join"
    /\ UNCHANGED <<cpu, cpu_running, clk, something_pressed, key_pressed_,
                   display_buffer_, snapshots, redraw_, log, life>>

\* the_display.terminate()
terminate ==
    /\ main_at = "terminate"
    /\ running_' = FALSE
    /\ main_at' = "join"
    /\ UNCHANGED <<cpu, cpu_running, clk, something_pressed, key_pressed_,
                   display_buffer_, snapshots, redraw_, log, rom, loop_at,
                   x11_display_, x11_window_>>

\* display_thread.join() and return 0
Join ==
    /\ main_at = "join"
    /\ loop_at = "returned"
    /\ main_at' = "returned"
    /\ UNCHANGED <<cpu, cpu_running, clk, something_pressed, key_pressed_,
                   display_buffer_, snapshots, redraw_, log, life>>

\* The thread of display::loop. loop_at is "loop" at the test of the while,
\* "expose" inside the draw_pixels of an Expose event, "test" at the test of
\* redraw_, "clear" at the store that follows it, "redraw" inside the
\* draw_pixels after that, and "returned".
shown == <<cpu, cpu_running, clk, something_pressed, key_pressed_,
           display_buffer_, snapshots, log, rom, main_at, running_,
           x11_display_>>

\* while (running_.load()), then the events pending: an Expose event or none
LoopTop ==
    /\ loop_at = "loop"
    /\ IF running_
       THEN \E expose \in BOOLEAN :
               IF expose
               THEN loop_at' = "expose" /\ x11_window_' = Unpainted
               ELSE loop_at' = "test" /\ UNCHANGED x11_window_
       ELSE loop_at' = "returned" /\ UNCHANGED x11_window_
    /\ UNCHANGED <<shown, redraw_>>

\* if (redraw_.load())
RedrawTest ==
    /\ loop_at = "test"
    /\ loop_at' = IF redraw_ THEN "clear" ELSE "loop"
    /\ UNCHANGED <<shown, redraw_, x11_window_>>

\* redraw_ = false; draw_pixels(): XClearWindow
RedrawStart ==
    /\ loop_at = "clear"
    /\ redraw_' = FALSE
    /\ loop_at' = "redraw"
    /\ x11_window_' = Unpainted
    /\ UNCHANGED shown

\* the rows of the band-th step of draw_pixels
BandRows(band) ==
    {h_idx \in 0..(display_h - 1) : (h_idx * DrawBands) \div display_h = band}

\* the squares draw_pixels paints for the rows of a band, from the bytes
\* display_buffer_ holds when it reads them
BandLit(band) ==
    {p \in DOMAIN display_buffer_ :
        display_buffer_[p] # 0 /\ (p \div display_w) \in BandRows(band)}

\* a draw_pixels after which the loop clears redraw_
draw_pixelsThenClear ==
    /\ loop_at \in {"expose", "redraw"}
    /\ x11_window_' = [bands |-> x11_window_.bands + 1,
                       lit |-> x11_window_.lit \cup BandLit(x11_window_.bands)]
    /\ loop_at' = IF x11_window_.bands + 1 < DrawBands THEN loop_at
                  ELSE IF loop_at = "expose" THEN "test" ELSE "loop"
    /\ redraw_' = IF x11_window_.bands + 1 < DrawBands THEN redraw_ ELSE FALSE
    /\ UNCHANGED shown

\* draw_pixels: the loops over one more band of rows; after the last band it
\* returns
draw_pixels ==
    /\ loop_at \in {"expose", "redraw"}
    /\ x11_window_' = [bands |-> x11_window_.bands + 1,
                       lit |-> x11_window_.lit \cup BandLit(x11_window_.bands)]
    /\ loop_at' = IF x11_window_.bands + 1 < DrawBands THEN loop_at
                  ELSE IF loop_at = "expose" THEN "test" ELSE "loop"
    /\ UNCHANGED <<shown, redraw_>>

loop == LoopTop \/ RedrawTest \/ RedrawStart \/ draw_pixels

MainStep == initialize \/ Spawn \/ LoadRom \/ LoopTest \/ Body \/ terminate \/ Join

NextLife == MainStep \/ loop \/ on_interrupt

\* both threads keep being scheduled
SpecLife ==
    InitLife /\ [][NextLife]_vars /\ WF_vars(MainStep) /\ WF_vars(loop)

\* the same two threads on a program that keeps drawing
InitShow == Started({RomFile(2 * Len(TearRom), TearRom)})

SpecShow ==
    InitShow /\ [][NextLife]_vars /\ WF_vars(MainStep) /\ WF_vars(loop)

(***************************************************************************)
(* Programs that exercise single instructions. They run without user input *)
(* and are followed up to their closing jump-to-self.                      *)
(***************************************************************************)
RegSamples == {0, 1, 14, 15}

ByteSamples == {0, 1, 2, 128, 255}

\* 6F07 ; 6Yb ; 6Xa ; 8XYn ; 1208
AluRom(n, x, y, a, b) ==
    << OpNN(6, 15, 7), OpNN(6, y, b), OpNN(6, x, a), Op(8, x, y, n),
       OpAddr(1, start_addr + 8) >>

AluRoms ==
    {AluRom(n, x, y, a, b) : n \in {4, 5, 6, 7, 14}, x \in RegSamples,
                             y \in RegSamples, a \in ByteSamples, b \in ByteSamples}

\* n nested calls, then n returns, then a jump to itself:
\*   0x200: 2204 ; 1202 ; 2208 ; 00EE ; ... ; 00EE
CallRom(n) ==
    [i \in 1..(2 * n + 1) |->
        IF i = 2 * n + 1 THEN Op(0, 0, 14, 14)
        ELSE IF i % 2 = 1 THEN OpAddr(2, start_addr + 2 * (i + 1))
        ELSE IF i = 2 THEN OpAddr(1, start_addr + 2)
        ELSE Op(0, 0, 14, 14)]

CallRoms == {CallRom(n) : n \in 1..MaxNest}

\* sprite data, 16 bytes each, as words
SolidSprite == [i \in 1..8 |-> 65535]
EmptySprite == [i \in 1..8 |-> 0]
MixedSprite == << 33039, 240, 43605, 0, 65280, 4080, 1, 32768 >>

SpriteSamples == {SolidSprite, EmptySprite, MixedSprite}

sprite_addr == start_addr + 16

\* 6Xx ; 6Yy ; A028 ; DXYk ; A210 ; DXYn ; DXYn ; 120E ; sprite data
\* (the first draw puts k rows of the glyph "8" under the sprite)
DrawRom(rx, ry, x, y, k, n, data) ==
    << OpNN(6, rx, x), OpNN(6, ry, y), OpAddr(10, 8 * font_sprite_size),
       Op(13, rx, ry, k), OpAddr(10, sprite_addr), Op(13, rx, ry, n),
       Op(13, rx, ry, n), OpAddr(1, start_addr + 14) >> \o data

DrawRoms ==
    {DrawRom(rr[1], rr[2], x, y, k, n, data) :
        rr \in {<<0, 1>>, <<15, 1>>, <<1, 15>>},
        x \in {0, 60, 63, 124}, y \in {0, 30, 31, 62},
        k \in {0, 5}, n \in {0, 1, 5, 15}, data \in SpriteSamples}

\* 600B ; 6116 ; 6X21 ; 6F2C ; ANNN ; FX55 ; ANNN ; FX65 ; 1210
RoundTripRom(x, index) ==
    << OpNN(6, 0, 11), OpNN(6, 1, 22), OpNN(6, x, 33), OpNN(6, 15, 44),
       OpAddr(10, index), OpNN(15, x, 85), OpAddr(10, index), OpNN(15, x, 101),
       OpAddr(1, start_addr + 16) >>

RoundTripRoms ==
    {RoundTripRom(x, index) : x \in {0, 1, 15}, index \in {768, 4080, 4090, 4095}}

\* 6Xvv ; ANNN ; FX33 ; 1206
BcdRom(x, v, index) ==
    << OpNN(6, x, v), OpAddr(10, index), OpNN(15, x, 51), OpAddr(1, start_addr + 6) >>

BcdRoms ==
    {BcdRom(x, v, index) : x \in {0, 15}, v \in 0..255,
                           index \in {77, 768, 4093, 4094}}

\* instruction words outside the instruction table, and words next to them
OddWords ==
    { Op(0, 0, 0, 0), Op(0, 1, 2, 3), Op(0, 1, 14, 0), Op(0, 1, 14, 14),
      Op(5, 0, 1, 1), Op(9, 0, 1, 1), Op(8, 0, 1, 8), Op(8, 0, 1, 15),
      Op(14, 0, 0, 0), Op(14, 1, 9, 15), Op(15, 0, 0, 0), Op(15, 1, 15, 15) }

\* 6005 ; 61bb ; D015 ; the odd word ; 1208 ; 120A
OddRom(word, b) ==
    << OpNN(6, 0, 5), OpNN(6, 1, b), Op(13, 0, 1, 5), word,
       OpAddr(1, start_addr + 8), OpAddr(1, start_addr + 10) >>

OddRoms == {OddRom(word, b) : word \in OddWords, b \in {5, 6}}

\* a return with nothing on the call stack: 6105 ; 00EE ; 6207 ; 1206
StrayReturnRom ==
    << OpNN(6, 1, 5), Op(0, 0, 14, 14), OpNN(6, 2, 7), OpAddr(1, start_addr + 6) >>

\* 6000 ... 6000 ; 1FFF: a jump to the last byte of memory, late enough that
\* three fetches follow it
EdgeJumpRom ==
    [i \in 1..(MaxClk - 4) |-> OpNN(6, 0, 0)] \o << OpAddr(1, mem_size - 1) >>

ExecRoms ==
    AluRoms \cup CallRoms \cup DrawRoms \cup RoundTripRoms \cup BcdRoms
        \cup OddRoms \cup {StrayReturnRom, EdgeJumpRom}

InitExec == \E words \in ExecRoms : InitWith(words)

Halted(c) == Fetch(c, 0) = OpAddr(1, c.pc)

RunToHalt == ~Halted(cpu) /\ Tick

SpecExec == InitExec /\ [][RunToHalt]_vars

(***************************************************************************)
(* The last tick, as the properties below read it: the instruction it      *)
(* executed, with the registers and arrays that instruction started from.  *)
(***************************************************************************)
Ticked == log # << >>

LastTick == Last(log)

Ran(family, low) ==
    /\ Ticked
    /\ ms_nibble_of(LastTick.instr) = family
    /\ imm_n_of(LastTick.instr) = low

RanNN(family, low) ==
    /\ Ticked
    /\ ms_nibble_of(LastTick.instr) = family
    /\ imm_nn_of(LastTick.instr) = low

OpX == reg_x_of(LastTick.instr)

OpY == reg_y_of(LastTick.instr)

OldVX == LastTick.vx[OpX]

OldVY == LastTick.vx[OpY]

Flag(cond) == IF cond THEN 1 ELSE 0

\* C1: after add VX,VY (8XY4) on a = VX, b = VY, VF is 1 if a + b > 255 and
\* 0 otherwise, for every X and Y, register F included, and VX (a register
\* other than the flag) is (a + b) mod 256.
C1_AddCarry ==
    Ran(8, 4) =>
        /\ cpu.register_vx[15] = Flag(OldVX + OldVY > 255)
        /\ (OpX # 15 => cpu.register_vx[OpX] = (OldVX + OldVY) % 256)

\* C2: after sub VX,VY (8XY5) VF is 1 iff a >= b and VX is (a - b) mod 256;
\* after subn VX,VY (8XY7) VF is 1 iff b >= a and VX is (b - a) mod 256.
C2_SubNoBorrow ==
    /\ Ran(8, 5) =>
          /\ cpu.register_vx[15] = Flag(OldVX >= OldVY)
          /\ (OpX # 15 => cpu.register_vx[OpX] = (OldVX - OldVY) % 256)
    /\ Ran(8, 7) =>
          /\ cpu.register_vx[15] = Flag(OldVY >= OldVX)
          /\ (OpX # 15 => cpu.register_vx[OpX] = (OldVY - OldVX) % 256)

\* C3: after shift-right VX,VY (8XY6) VF is bit 0 of the value VY held
\* before, for every X and Y and whatever VX held, and VX, when X is not F,
\* is that value shifted right by one.
C3_ShiftRightFlag ==
    Ran(8, 6) =>
        /\ cpu.register_vx[15] = OldVY % 2
        /\ (OpX # 15 => cpu.register_vx[OpX] = OldVY \div 2)

(***************************************************************************)
(* Key-wait and key sampling: steps of the scheduler loop.                 *)
(***************************************************************************)
TickStep == clk' = clk + 1

\* the instruction the tick of this step fetches at cpu.pc
Stepped == Last(log')

\* C4: a tick that fetches FX0A while last_key_pressed is none leaves the
\* program counter at the FX0A and every register unchanged; a tick that
\* fetches it while last_key_pressed is a key k sets VX to k and leaves the
\* program counter 2 past the FX0A; and each tick fetches where the tick
\* before it left the program counter.
C4_KeyWaitBlocks ==
    [][ (TickStep /\ ms_nibble_of(Stepped.instr) = 15
                  /\ imm_nn_of(Stepped.instr) = 10) =>
           /\ Stepped.addr = cpu.pc
           /\ cpu.last_key_pressed < 0 =>
                 /\ cpu'.pc = cpu.pc
                 /\ cpu'.register_vx = cpu.register_vx
           /\ cpu.last_key_pressed >= 0 =>
                 /\ cpu'.pc = cpu.pc + 2
                 /\ cpu'.register_vx =
                       [cpu.register_vx EXCEPT ![reg_x_of(Stepped.instr)] =
                                                    cpu.last_key_pressed] ]_vars

\* FX0A at 0x200 blocked on the first tick, later took key 1 into V3, and the
\* instruction after it has been executed.
C4_Witness ==
    /\ Len(log) >= 3
    /\ log[1].instr = Op(15, 3, 0, 10) /\ log[1].pc = log[1].addr
    /\ log[Len(log) - 1].instr = Op(15, 3, 0, 10)
    /\ log[Len(log) - 1].pc = log[Len(log) - 1].addr + 2
    /\ LastTick.addr = start_addr + 2
    /\ cpu.register_vx[3] = 1

\* C5: after the key sampling of every tick, last_key_pressed is the lowest
\* key pressed in the new sample and not in the previous one, and -1 when
\* there is no such key, on every tick of the run; keys is the new sample.
C5_KeyEdge ==
    [][ TickStep =>
           LET newly == {i \in 0..(n_keys - 1) : key_pressed_[i] /\ ~cpu.keys[i]}
           IN  /\ cpu'.keys = key_pressed_
               /\ cpu'.last_key_pressed =
                     IF newly = {} THEN -1
                     ELSE CHOOSE i \in newly : \A j \in newly : i <= j ]_vars

(***************************************************************************)
(* Timers.                                                                 *)
(***************************************************************************)
\* what the timer holds once the instruction of the last tick has executed
AfterExecute(old, set_nn) == IF RanNN(15, set_nn) THEN OldVX ELSE old

TimerOk(now, old, set_nn) ==
    LET t == AfterExecute(old, set_nn)
    IN  /\ now \in 0..255
        /\ IF clk % (clock_freq \div 60) = 0
           THEN (t > 0 => now = t - 1) /\ (t = 0 => now = 0)
           ELSE now = t

\* C6: the timers stay in 0..255; on a tick whose count is a multiple of
\* K = instruction rate / 60 a nonzero timer is decremented by exactly 1 and
\* a zero timer stays 0; on every other tick a timer changes only by FX15
\* (delay) or FX18 (sound).
C6_Timers ==
    /\ cpu.register_delay \in 0..255
    /\ cpu.register_sound \in 0..255
    /\ Ticked =>
          /\ TimerOk(cpu.register_delay, LastTick.delay, 21)
          /\ TimerOk(cpu.register_sound, LastTick.sound, 24)

\* tick 11 executed FX15 with V0 = 3: the delay timer was set and counted
\* down once, the sound timer only counted down.
C6_Witness ==
    /\ clk = clock_freq \div 60
    /\ RanNN(15, 21)
    /\ LastTick.delay = 3 /\ cpu.register_delay = 2
    /\ LastTick.sound = 3 /\ cpu.register_sound = 2

(***************************************************************************)
(* Call stack.                                                             *)
(***************************************************************************)
IsCall(e) == ms_nibble_of(e.instr) = 2

IsReturn(e) == e.instr = Op(0, 0, 14, 14)

StackAfter(k) == IF k = Len(log) THEN cpu.stack ELSE log[k + 1].stack

\* ticks s .. s+n-1 are calls from an empty stack, ticks s+n .. s+n+i-1 returns
CallsThenReturns(s, n, i) ==
    /\ s + n + i - 1 <= Len(log)
    /\ log[s].stack = << >>
    /\ \A k \in s..(s + n - 1) : IsCall(log[k])
    /\ \A k \in (s + n)..(s + n + i - 1) : IsReturn(log[k])

\* C7: N calls from an empty stack followed by N returns: the i-th return
\* sets the program counter to the address after the (N-i+1)-th call, and the
\* stack is empty after the N-th return.
C7_CallReturnLifo ==
    \A s \in 1..Len(log) : \A n \in 1..Len(log) : \A i \in 1..n :
        CallsThenReturns(s, n, i) =>
            /\ log[s + n + i - 1].pc = log[s + n - i].addr + 2
            /\ (i = n => StackAfter(s + n + i - 1) = << >>)

\* three nested calls and their three returns have run
C7_Witness ==
    /\ CallsThenReturns(1, 3, 3)
    /\ Len(log) = 6
    /\ cpu.pc = start_addr + 2

(***************************************************************************)
(* Draw.                                                                   *)
(***************************************************************************)
RanDraw == Ticked /\ ms_nibble_of(LastTick.instr) = 13

Rows == imm_n_of(LastTick.instr)

OriginX == OldVX % 64

OriginY == OldVY % 32

\* the sprite cells <<r, c>> that fall on the screen, and the pixel of each
SpriteCells ==
    {rc \in (0..(Rows - 1)) \X (0..7) : OriginX + rc[2] <= 63 /\ OriginY + rc[1] <= 31}

CellPixel(rc) == (OriginY + rc[1]) * 64 + OriginX + rc[2]

SpriteBit(rc) == Bit(Peek(LastTick.ram, LastTick.index + rc[1]), 7 - rc[2])

SpriteInRam == LastTick.index + Rows <= mem_size

Changed(p) == Peek(cpu.display, p) # Peek(LastTick.display, p)

\* C8: a draw (DXYN) with origin (VX mod 64, VY mod 32) changes no pixel but
\* those at (x+c, y+r) with r < N, c < 8, x+c <= 63 and y+r <= 31, of these
\* exactly the ones whose sprite bit is set, writes nothing outside the
\* framebuffer, and leaves VF = 0 unless it turned a lit pixel off.
C8_DrawClips ==
    RanDraw =>
        /\ DOMAIN cpu.display \subseteq 0..(n_pixels - 1)
        /\ \A p \in (DOMAIN cpu.display) \cup (DOMAIN LastTick.display) :
              Changed(p) => \E rc \in SpriteCells : p = CellPixel(rc)
        /\ SpriteInRam =>
              \A rc \in SpriteCells : Changed(CellPixel(rc)) <=> (SpriteBit(rc) = 1)
        /\ cpu.register_vx[15] =
              Flag(\E p \in DOMAIN LastTick.display :
                      Peek(LastTick.display, p) = 1 /\ Peek(cpu.display, p) = 0)

\* a solid 5-row sprite drawn on the empty screen at (60,0) lit columns
\* 60..63 of rows 0..4 and nothing else
C8_Witness ==
    /\ RanDraw /\ OriginX = 60 /\ OriginY = 0 /\ Rows = 5
    /\ LastTick.display = Zeroed
    /\ \A r \in 0..4 : \A c \in 60..63 : Peek(cpu.display, r * 64 + c) = 1
    /\ \A r \in 0..31 : \A c \in 0..3 : Peek(cpu.display, r * 64 + c) = 0
    /\ Cardinality(DOMAIN cpu.display) = 20

\* the draw before the last one
FirstDraw == log[Len(log) - 1]

\* the last two ticks executed the same draw on the same VX, VY, index and
\* sprite bytes
DoubleDraw ==
    /\ Len(log) >= 2
    /\ RanDraw
    /\ FirstDraw.instr = LastTick.instr
    /\ FirstDraw.vx[OpX] = OldVX
    /\ FirstDraw.vx[OpY] = OldVY
    /\ FirstDraw.index = LastTick.index
    /\ SpriteInRam
    /\ \A r \in 0..(Rows - 1) :
          Peek(FirstDraw.ram, FirstDraw.index + r) = Peek(LastTick.ram, LastTick.index + r)

\* the pixels under the set bits of the on-screen part of the sprite
Touched == {CellPixel(rc) : rc \in {t \in SpriteCells : SpriteBit(t) = 1}}

\* C9 as stated: after the same draw twice in succession every pixel the
\* sprite touched is clear and VF = 1.
C9_DoubleDrawClears ==
    DoubleDraw =>
        /\ \A p \in Touched : Peek(cpu.display, p) = 0
        /\ cpu.register_vx[15] = 1

\* C9: after the same draw twice in succession every pixel is what it was
\* before the first draw (the touched pixels that were unlit are unlit again,
\* those that were lit are lit again), and VF = 1 exactly when the first draw
\* lit at least one pixel.
C9_DoubleDrawRestores ==
    DoubleDraw =>
        /\ \A p \in (DOMAIN cpu.display) \cup (DOMAIN FirstDraw.display) :
              Peek(cpu.display, p) = Peek(FirstDraw.display, p)
        /\ \A p \in Touched : Peek(cpu.display, p) = Peek(FirstDraw.display, p)
        /\ cpu.register_vx[15] =
              Flag(\E p \in Touched : Peek(FirstDraw.display, p) = 0)

\* a double draw over a screen that already had lit pixels under the sprite:
\* the first draw lit some pixels and put out others, the second undid both
C9_Witness ==
    /\ DoubleDraw
    /\ \E p \in Touched : Peek(FirstDraw.display, p) = 0 /\ Peek(cpu.display, p) = 0
    /\ \E p \in Touched : Peek(FirstDraw.display, p) = 1 /\ Peek(cpu.display, p) = 1
    /\ cpu.register_vx[15] = 1

(***************************************************************************)
(* Store and load of V0..VX.                                               *)
(***************************************************************************)
StoreTick == log[Len(log) - 2]

ResetTick == log[Len(log) - 1]

\* the last three ticks were FX55 at index I, ANNN setting the index back to
\* I, and FX65 with the same X
RoundTrip ==
    /\ Len(log) >= 3
    /\ RanNN(15, 101)
    /\ ms_nibble_of(StoreTick.instr) = 15
    /\ imm_nn_of(StoreTick.instr) = 85
    /\ reg_x_of(StoreTick.instr) = OpX
    /\ ms_nibble_of(ResetTick.instr) = 10
    /\ imm_nnn_of(ResetTick.instr) = StoreTick.index

\* C10: FX55 then FX65 with the same X and the index set back to I, for every
\* X and every I: V0..VF are what they were before the FX55, each of the two
\* instructions advanced the index by X + 1, and FX55 changed memory at
\* I..I+X only, to V0..VX.
C10_StoreLoadRoundTrip ==
    RoundTrip =>
        /\ cpu.register_vx = StoreTick.vx
        /\ ResetTick.index = StoreTick.index + OpX + 1
        /\ cpu.register_index = LastTick.index + OpX + 1
        /\ \A a \in (DOMAIN StoreTick.ram) \cup (DOMAIN ResetTick.ram)
                      \cup (StoreTick.index..(StoreTick.index + OpX)) :
              Peek(ResetTick.ram, a) =
                 IF a \in StoreTick.index..(StoreTick.index + OpX)
                 THEN StoreTick.vx[a - StoreTick.index]
                 ELSE Peek(StoreTick.ram, a)

(***************************************************************************)
(* FX33.                                                                   *)
(***************************************************************************)
BcdTarget == LastTick.index..(LastTick.index + 2)

SameRam(before, now, except) ==
    \A a \in ((DOMAIN before) \cup (DOMAIN now)) \ except :
        Peek(now, a) = Peek(before, a)

\* C11: FX33 on VX = v with I, I+1, I+2 inside memory leaves three decimal
\* digits at memory[I], memory[I+1], memory[I+2] with
\* 100*memory[I] + 10*memory[I+1] + memory[I+2] = v, and changes no other
\* memory byte, no register and not the index register.
C11_Bcd ==
    (RanNN(15, 51) /\ LastTick.index + 2 < mem_size) =>
        LET h == Peek(cpu.ram, LastTick.index)
            d == Peek(cpu.ram, LastTick.index + 1)
            u == Peek(cpu.ram, LastTick.index + 2)
        IN  /\ {h, d, u} \subseteq 0..9
            /\ 100 * h + 10 * d + u = OldVX
            /\ SameRam(LastTick.ram, cpu.ram, BcdTarget)
            /\ cpu.register_vx = LastTick.vx
            /\ cpu.register_index = LastTick.index

\* FX33 on 234 stored 2, 3, 4
C11_Witness ==
    /\ RanNN(15, 51) /\ OldVX = 234 /\ LastTick.index = 768
    /\ Peek(cpu.ram, 768) = 2 /\ Peek(cpu.ram, 769) = 3 /\ Peek(cpu.ram, 770) = 4

(***************************************************************************)
(* Memory below start_addr.                                                *)
(***************************************************************************)
\* C16: in every state of the scheduler loop memory[0..0x1FF] is what
\* start-up left there: the font sprites, then zeros.
C16_LowMemoryFixed ==
    \A a \in 0..(start_addr - 1) :
        Peek(cpu.ram, a) = IF a < Len(font_sprites) THEN font_sprites[a + 1] ELSE 0

(***************************************************************************)
(* Words outside the instruction table.                                    *)
(***************************************************************************)
Unlisted(instruction) ==
    LET family == ms_nibble_of(instruction)
        n == imm_n_of(instruction)
        nn == imm_nn_of(instruction)
    IN  \/ family = 0 /\ instruction \notin {Op(0, 0, 14, 0), Op(0, 0, 14, 14)}
        \/ family \in {5, 9} /\ n # 0
        \/ family = 8 /\ n \in (8..13) \cup {15}
        \/ family = 14 /\ nn \notin {158, 161}
        \/ family = 15 /\ nn \notin {7, 10, 21, 24, 30, 41, 51, 85, 101}

\* the tick left everything but the program counter, the timers and the keys
\* as it found it
NothingDone ==
    /\ cpu.register_vx = LastTick.vx
    /\ cpu.register_index = LastTick.index
    /\ SameRam(LastTick.ram, cpu.ram, {})
    /\ cpu.stack = LastTick.stack
    /\ SameRam(LastTick.display, cpu.display, {})
    /\ (clk % clocks60 # 0 => cpu.redraw_required = LastTick.redraw)

\* C19: a tick on a word outside the instruction table leaves the program
\* counter exactly 2 past the word and registers, index register, memory,
\* call stack, framebuffer and redraw flag unchanged.
C19_UnlistedIgnored ==
    (Ticked /\ Unlisted(LastTick.instr)) =>
        /\ cpu.pc = LastTick.addr + 2
        /\ NothingDone

(***************************************************************************)
(* Return on an empty call stack.                                          *)
(***************************************************************************)
StrayReturn(e) == IsReturn(e) /\ e.stack = << >>

\* C20: 00EE on an empty call stack leaves the program counter at the
\* address after the 00EE, the call stack empty and the rest of the machine
\* unchanged, and the next tick fetches there.
C20_StrayReturn ==
    /\ (Ticked /\ StrayReturn(LastTick)) =>
          /\ cpu.pc = LastTick.addr + 2
          /\ cpu.stack = << >>
          /\ NothingDone
          /\ cpu.register_delay = LastTick.delay
          /\ cpu.register_sound = LastTick.sound
    /\ \A k \in 1..(Len(log) - 1) :
          StrayReturn(log[k]) => log[k + 1].addr = log[k].addr + 2

\* the stray return ran and the instruction after it (6207) ran next
C20_Witness ==
    /\ Len(log) >= 3
    /\ StrayReturn(log[2])
    /\ log[3].instr = OpNN(6, 2, 7)
    /\ cpu.register_vx[2] = 7

(***************************************************************************)
(* Redraw hand-off.                                                        *)
(***************************************************************************)
\* the program the machine was started with
Runs(words) ==
    \A i \in 1..(2 * Len(words)) :
        Peek(cpu.ram, start_addr + i - 1) = RomBytes(words)[i]

\* the lit pixels of the glyph "A" drawn at (0,0)
GlyphPixels ==
    {r * 64 + c : r \in 0..4, c \in 0..7} \cap
    {p \in 0..(n_pixels - 1) :
        (p % 64) < 8 /\ (p \div 64) < 5
        /\ Bit(font_sprites[10 * 5 + (p \div 64) + 1], 7 - (p % 64)) = 1}

ShowsGlyph(d) == DOMAIN d = GlyphPixels /\ \A p \in GlyphPixels : d[p] = 1

Handoffs == {k \in 1..Len(log) : log[k].handoff}

\* C12: running "clear, point the index at a font glyph, draw it, jump to
\* self": from the first tick whose count is a multiple of K on, the
\* framebuffer is the glyph and nothing else, exactly one snapshot, equal to
\* it, has been handed to the display, and the program counter is at the jump.
C12_GlyphProgram ==
    (Runs(GlyphRom) /\ clk >= clock_freq \div 60) =>
        /\ ShowsGlyph(cpu.display)
        /\ Cardinality(Handoffs) = 1
        /\ ShowsGlyph(display_buffer_)
        /\ cpu.pc = start_addr + 6

\* the sample program has passed its second multiple of K
C12_Witness ==
    /\ Runs(GlyphRom)
    /\ clk = 2 * (clock_freq \div 60)
    /\ Handoffs = {clock_freq \div 60}
    /\ Peek(display_buffer_, 0) = 1 /\ Peek(display_buffer_, 64) = 1
    /\ Peek(display_buffer_, 65) = 0

AsksRedraw(e) ==
    \/ e.instr = Op(0, 0, 14, 0)
    \/ ms_nibble_of(e.instr) = 13

\* redraw_required once the instruction of the last tick has executed
FlagAfterExecute == LastTick.redraw \/ AsksRedraw(LastTick)

\* C18: every 00E0 and DXYN sets redraw_required; the flag is cleared only
\* on a tick whose count is a multiple of K, and there a snapshot equal to the
\* framebuffer is handed over iff the flag was set; a set flag leads to a
\* hand-over within K ticks.
C18_RedrawFlag ==
    /\ Ticked =>
          IF clk % (clock_freq \div 60) = 0
          THEN /\ ~cpu.redraw_required
               /\ LastTick.handoff = FlagAfterExecute
               /\ LastTick.handoff =>
                     /\ SameRam(cpu.display, display_buffer_, {})
                     /\ redraw_
          ELSE /\ cpu.redraw_required = FlagAfterExecute
               /\ ~LastTick.handoff
    /\ \A k \in 1..Len(log) :
          (log[k].redraw \/ AsksRedraw(log[k])) =>
              \E j \in k..(k + (clock_freq \div 60) - 1) :
                  j > Len(log) \/ log[j].handoff

\* a clear-screen set the flag on tick 1 and the snapshot went out on tick 11;
\* tick 22 found the flag unset and handed nothing over
C18_Witness ==
    /\ Len(log) = 22
    /\ log[1].instr = Op(0, 0, 14, 0) /\ log[2].redraw
    /\ log[11].handoff /\ ~log[22].redraw /\ ~log[22].handoff
    /\ ~cpu.redraw_required

(***************************************************************************)
(* Start-up and shutdown.                                                  *)
(***************************************************************************)
LoaderDone == main_at \notin {"initialize", "spawn", "load"}

FontsOnly == set_font_sprites(cpu_t).ram

\* C13: a ROM of more than 4096 - 0x200 = 3584 bytes makes the loader exit
\* before it copies anything; a ROM of L <= 3584 bytes is copied to
\* memory[0x200 .. 0x200+L-1] and nothing else changes; no byte is ever
\* written at or past address 4096.
C13_Loader ==
    (LoaderDone /\ clk = 0) =>
        /\ IF rom.size > mem_size - start_addr
           THEN main_at = "exited" /\ cpu.ram = FontsOnly
           ELSE /\ main_at # "exited"
                /\ \A i \in 1..rom.size :
                      Peek(cpu.ram, start_addr + i - 1) = FileBytes(rom)[i]
                /\ SameRam(FontsOnly, cpu.ram,
                           start_addr..(start_addr + rom.size - 1))
        /\ main_at # "smashed"
        /\ DOMAIN cpu.ram \subseteq 0..(mem_size - 1)

InitializeFailed == main_at # "initialize" /\ x11_display_ = "null"

\* C14: no state has a failed initialize() and a scheduler that has fetched
\* or executed an instruction.
C14_NoRunAfterFailedInit == ~(InitializeFailed /\ clk > 0)

InLoop == main_at \in {"loop", "body", "terminate", "join"}

\* C15: cpu_running, once cleared, stays cleared; with it cleared no
\* iteration starts, only the one in flight finishes; and then main leaves
\* the loop, terminate() clears running_, display::loop returns and the join
\* completes.
C15_Shutdown ==
    /\ [][~cpu_running => ~cpu_running']_vars
    /\ [][(~cpu_running /\ main_at # "body") => clk' = clk]_vars
    /\ (~cpu_running /\ InLoop) ~>
          (main_at = "returned" /\ loop_at = "returned" /\ ~running_)

\* interrupted while FX0A was blocked: the process has come to its end
C15_Witness ==
    /\ Runs(WaitRom)
    /\ Ticked /\ LastTick.instr = Op(15, 3, 0, 10) /\ cpu.pc = start_addr
    /\ ~cpu_running
    /\ x11_display_ = "open"
    /\ main_at = "returned" /\ loop_at = "returned"

(***************************************************************************)
(* C17: frames and snapshots.                                              *)
(***************************************************************************)
\* the cells of a buffer that hold a non-zero byte
Lit(buffer) == {p \in DOMAIN buffer : buffer[p] # 0}

\* draw_pixels has returned: the window shows a whole frame
FrameDone == x11_window_.bands = DrawBands

\* C17: every frame the presentation task has rendered equals, pixel for
\* pixel, one complete snapshot the scheduler handed over (or the blank
\* buffer the display was constructed with); it is never a mixture of two
\* snapshots, whatever the interleaving of request_redraw with the loop.
C17_WholeFrames ==
    FrameDone => x11_window_.lit \in ({Lit(s) : s \in snapshots} \cup {{}})

(***************************************************************************)
(* C21: the period of the 60 Hz block.                                     *)
(***************************************************************************)
\* the ticks so far at which the scheduler ran its 60 Hz block
SyncTicks == {n \in 1..clk : IsSync(n)}

\* C21: the 60 Hz block runs every K ticks with K * 60 = instruction rate
\* (700): after any number of blocks the timers have counted down 60 times
\* for each 700 instructions executed.
C21_TimerPeriod ==
    /\ clocks60 * 60 = clock_freq
    /\ IsSync(clk) => Cardinality(SyncTicks) * clock_freq = clk * 60

(***************************************************************************)
(* C22: the cells of cpu.ram and cpu.display the last tick accessed.       *)
(***************************************************************************)
\* the addresses of cpu.ram the instruction of the last tick read or wrote
RamAccessed ==
    IF RanDraw
    THEN {LastTick.index + row : row \in RowsDrawn(OriginY, Rows)}
    ELSE IF RanNN(15, 51)
    THEN {LastTick.index + k : k \in 0..2}
    ELSE IF RanNN(15, 85) \/ RanNN(15, 101)
    THEN {LastTick.index + i : i \in 0..OpX}
    ELSE {}

\* the cells of cpu.display a draw of the last tick may have written
DisplayAccessed ==
    IF RanDraw
    THEN {PixelIndex(row, col, OriginX + OriginY * display_w) :
             row \in RowsDrawn(OriginY, Rows), col \in ColsDrawn(OriginX)}
    ELSE {}

\* C22: every array access stays in bounds: the fetch reads memory at pc and
\* pc + 1 with pc + 1 <= 4095, draw, FX33, FX55 and FX65 access memory only
\* at addresses <= 4095, and draw writes framebuffer cells 0..2047 only.
C22_InBounds ==
    Ticked =>
        /\ LastTick.addr + 1 <= mem_size - 1
        /\ RamAccessed \subseteq 0..(mem_size - 1)
        /\ DisplayAccessed \subseteq 0..(n_pixels - 1)

(***************************************************************************)
(* C23: the last snapshot reaches the window.                              *)
(***************************************************************************)
\* the window shows a whole frame equal to the snapshot last copied into
\* display_buffer_
ShowsLast == FrameDone /\ x11_window_.lit = Lit(display_buffer_)

\* C23: no redraw request is lost. With the display thread scheduled fairly
\* and its loop running, a snapshot handed over leads to a finished render
\* that equals the snapshot handed over last, whatever the interleaving of
\* request_redraw with the loop, and a request is never left unanswered:
\* redraw_ is still set, or the loop has seen it set and is about to render,
\* or the render under way started after the copy, or the window shows the
\* last snapshot already.
C23_NoLostRedraw ==
    /\ (snapshots # {}) ~> (ShowsLast \/ ~running_)
    /\ []((snapshots # {} /\ running_) =>
            \/ redraw_
            \/ loop_at = "clear"
            \/ ShowsLast
            \/ /\ loop_at \in {"expose", "redraw"}
               /\ x11_window_.lit \subseteq Lit(display_buffer_))

\* the second snapshot arrived while draw_pixels was half way through the
\* first one
C23_Witness ==
    /\ Cardinality(snapshots) = 2
    /\ loop_at = "redraw" /\ x11_window_.bands = 1
    /\ x11_window_.lit # {}
    /\ redraw_ /\ running_

====
